---- MODULE Spec2Model ----
(***************************************************************************)
(* Model of src/main.py: the FMC safety-data-sheet downloader.             *)
(*                                                                         *)
(*   Spec         main() from the extraction of the persisted catalog      *)
(*                pages to process exit: link extraction, deduplication,   *)
(*                the capped download loop, download_single_pdf with       *)
(*                wait_for_pdf_download, and the validation / lowercase    *)
(*                sweep over the output directory.                         *)
(*   SpecExtract  extract_pdfnames_from_response on its own, over a        *)
(*                bounded set of parsed catalog documents.                 *)
(*                                                                         *)
(* Strings are sequences of one-character strings, so that lower(),        *)
(* endswith(), split("/") and re.sub are computed and not assumed.         *)
(***************************************************************************)
EXTENDS Integers, Sequences, FiniteSets, TLC

VARIABLES
    pages,          \* the parsed content of the two persisted catalog files
    pc,             \* position of main()
    pending,        \* entries of pdf_links the for loop has not reached yet
    total,          \* ammount_of_pdf
    counter,        \* ammount_of_pdf_downloaded
    calls,          \* number of calls of download_single_pdf made so far
    fs,             \* the output directory: path |-> file content
    dpc,            \* position inside download_single_pdf
    task,           \* url, filename of the running download_single_pdf
    driver,         \* number of live browser sessions
    files_before,   \* snapshot taken by download_single_pdf
    elapsed,        \* clock readings: time.time() minus the detector's start
    found,          \* downloaded_pdf_path (a file name of the output folder)
    written,        \* number of files the browser wrote during this attempt
    in_time,        \* history: a new matching file arrived before the deadline
    outcome,        \* what the last download_single_pdf call logged
    todo,           \* entries of `files` the sweep has not reached yet
    pdf_file,       \* loop variable of the sweep
    xdoc,           \* SpecExtract: the parsed document under test
    xres            \* SpecExtract: what the extractor did with it

vars == <<pages, pc, pending, total, counter, calls, fs, dpc, task,
          driver, files_before, elapsed, found, written, in_time, outcome,
          todo, pdf_file, xdoc, xres>>

mainVars == <<pages, pc, pending, total, counter, calls, fs, dpc, task,
              driver, files_before, elapsed, found, written, in_time, outcome,
              todo, pdf_file>>

(***************************************************************************)
(* Bounds of the model.                                                    *)
(***************************************************************************)
\* Longest `items` list of a document in SpecExtract.
MaxItems == 3
\* Most files the browser writes during one download attempt.
MaxWrites == 2

(***************************************************************************)
(* Strings.                                                                *)
(***************************************************************************)
UpperCase == {"A", "B", "C", "D", "E", "F", "G", "H", "I", "J", "K", "L", "M",
              "N", "O", "P", "Q", "R", "S", "T", "U", "V", "W", "X", "Y", "Z"}

LowerCaseLetters == {"a", "b", "c", "d", "e", "f", "g", "h", "i", "j", "k", "l", "m",
                     "n", "o", "p", "q", "r", "s", "t", "u", "v", "w", "x", "y", "z"}

Digits == {"0", "1", "2", "3", "4", "5", "6", "7", "8", "9"}

\* str.lower() on one character
LowerChar(c) ==
    CASE c = "A" -> "a" [] c = "B" -> "b" [] c = "C" -> "c" [] c = "D" -> "d"
      [] c = "E" -> "e" [] c = "F" -> "f" [] c = "G" -> "g" [] c = "H" -> "h"
      [] c = "I" -> "i" [] c = "J" -> "j" [] c = "K" -> "k" [] c = "L" -> "l"
      [] c = "M" -> "m" [] c = "N" -> "n" [] c = "O" -> "o" [] c = "P" -> "p"
      [] c = "Q" -> "q" [] c = "R" -> "r" [] c = "S" -> "s" [] c = "T" -> "t"
      [] c = "U" -> "u" [] c = "V" -> "v" [] c = "W" -> "w" [] c = "X" -> "x"
      [] c = "Y" -> "y" [] c = "Z" -> "z" [] OTHER -> c

\* str.lower()
Lower(s) == [i \in 1..Len(s) |-> LowerChar(s[i])]

\* str.endswith(suffix)
EndsWith(s, suffix) ==
    /\ Len(s) >= Len(suffix)
    /\ SubSeq(s, Len(s) - Len(suffix) + 1, Len(s)) = suffix

DotPdf == <<".", "p", "d", "f">>

\* any(char.isupper() for char in content)
check_upper_case_letter(content) == \E i \in 1..Len(content) : content[i] \in UpperCase

\* the scheme and authority of an absolute URL, kept as one token
Authority == "https://sdsviewer.fmc.com"

\* the prefix main() puts before a reference that is no URL
BaseUrl == <<Authority, "/", "SDS_DOCS", "/">>

\* validators.url(given_url): an absolute URL starts with scheme and authority
validate_url(given_url) == Len(given_url) > 0 /\ given_url[1] = Authority

\* urllib.parse.urlparse(url).path
UrlPath(url) == IF Len(url) > 0 /\ url[1] = Authority THEN Tail(url) ELSE url

\* path.split("/")[-1]
LastSegment(p) ==
    LET slashes == {i \in 1..Len(p) : p[i] = "/"}
        last == CHOOSE i \in slashes : \A j \in slashes : j <= i
    IN  IF slashes = {} THEN p ELSE SubSeq(p, last + 1, Len(p))

\* the characters re.sub(r"[^a-z0-9._-]", "", ...) keeps
SafeChars == LowerCaseLetters \cup Digits \cup {".", "_", "-"}

KeepSafe(c) == c \in SafeChars

url_to_filename(url) ==
    LET filename == Lower(LastSegment(UrlPath(url)))
        cleaned_filename == SelectSeq(filename, KeepSafe)
    IN  Lower(cleaned_filename)

\* lines 358-359 of main(): prepend the base when the reference is no URL
ResolveUrl(pdf_link) == IF validate_url(pdf_link) THEN pdf_link ELSE BaseUrl \o pdf_link

(***************************************************************************)
(* The references the catalog pages of the model carry.                    *)
(***************************************************************************)
RefLower == <<"a", ".", "p", "d", "f">>
RefUpper == <<"A", ".", "p", "d", "f">>
RefNested == <<"d", "/", "b", "$", ".", "p", "d", "f">>
RefAbsolute == <<Authority, "/", "x", "/", "B", ".", "P", "D", "F">>

(***************************************************************************)
(* extract_pdfnames_from_response.  A parsed document is described by the  *)
(* types the extractor looks at: the type of the top-level value, of       *)
(* data["response"], of response["items"], and the items themselves.       *)
(***************************************************************************)
NoName == <<>>

ItemWith(ref) == [kind |-> "dict", has |-> TRUE, pdfname |-> ref]
ItemWithout == [kind |-> "dict", has |-> FALSE, pdfname |-> NoName]
ItemString == [kind |-> "str", has |-> FALSE, pdfname |-> NoName]
ItemNull == [kind |-> "null", has |-> FALSE, pdfname |-> NoName]

Doc(top, response, items, list) ==
    [top |-> top, response |-> response, items |-> items, list |-> list]

GoodDoc(list) == Doc("dict", "dict", "list", list)

Raised == [run |-> TRUE, raised |-> TRUE, names |-> <<>>]
Returned(names) == [run |-> TRUE, raised |-> FALSE, names |-> names]
NotRun == [run |-> FALSE, raised |-> FALSE, names |-> <<>>]

\* `"pdfname" in item` raises TypeError on an item that is no container
ItemRaises(item) == item.kind = "null"

\* `"pdfname" in item`: a key of a dict; a substring of a string
ItemCarries(item) == item.kind = "dict" /\ item.has

ItemName(item) == item.pdfname

RECURSIVE CollectNames(_)
CollectNames(list) ==
    IF list = <<>> THEN <<>>
    ELSE IF ItemCarries(Head(list)) THEN <<ItemName(Head(list))>> \o CollectNames(Tail(list))
    ELSE CollectNames(Tail(list))

extract_pdfnames_from_response(doc) ==
    IF doc.top # "dict" THEN Raised                       \* data.get: AttributeError
    ELSE IF doc.response \notin {"missing", "dict"} THEN Raised  \* response.get: AttributeError
    ELSE IF doc.response = "missing" \/ doc.items = "missing" THEN Returned(<<>>)
    ELSE IF doc.items # "list" THEN Returned(<<>>)         \* not isinstance(items, list)
    ELSE IF \E i \in 1..Len(doc.list) : ItemRaises(doc.list[i]) THEN Raised
    ELSE Returned(CollectNames(doc.list))

(***************************************************************************)
(* The output directory.  A path is <<directory, file name>>; downloads    *)
(* land in Top, the walk also visits Sub.  A file's content records        *)
(* whether fitz opens it with at least one page, and where it came from.   *)
(* The file system is case-sensitive: only there can A.pdf and a.pdf       *)
(* both exist.                                                             *)
(***************************************************************************)
Top == "PDFs"
Sub == "PDFs/sub"

Content(valid, origin, doc) == [valid |-> valid, origin |-> origin, doc |-> doc]

NameLower == <<"a", ".", "p", "d", "f">>
NameUpper == <<"A", ".", "p", "d", "f">>
NameUpperExt == <<"B", ".", "P", "D", "F">>
NameNested == <<"C", ".", "p", "d", "f">>
NameTemp == <<"a", ".", "t", "m", "p">>

\* the names under which the browser may store what it downloads
DownloadNames == {NameUpper, NameUpperExt, NameTemp}

EmptyDir == [k \in {} |-> Content(TRUE, <<>>, <<>>)]

Old(path, valid) == path :> Content(valid, path, <<"old">>)

\* the output directory as a run may find it
InitialDirs ==
    { EmptyDir,
      Old(<<Top, NameLower>>, TRUE),
      Old(<<Sub, NameNested>>, FALSE),
      Old(<<Sub, NameUpper>>, TRUE) @@ Old(<<Sub, NameLower>>, TRUE) }

\* os.path.isdir in the place of os.path.isfile: no file is a directory
check_file_exists_isdir(fsys, system_path) == system_path \in DOMAIN fsys /\ system_path[2] = <<>>

\* os.path.isfile(path)
check_file_exists(fsys, system_path) == system_path \in DOMAIN fsys

\* os.listdir(output_folder), as far as files go
ListDir(fsys) == {k[2] : k \in {p \in DOMAIN fsys : p[1] = Top}}

\* os.remove(path)
remove_system_file(fsys, system_path) == [k \in DOMAIN fsys \ {system_path} |-> fsys[k]]

\* a new file written at path
CreateFile(fsys, path, content) ==
    [k \in DOMAIN fsys \cup {path} |-> IF k = path THEN content ELSE fsys[k]]

\* os.rename(src, dst) where src exists: dst is replaced when it exists
Rename(fsys, src, dst) ==
    IF src = dst THEN fsys
    ELSE [k \in (DOMAIN fsys \ {src}) \cup {dst} |-> IF k = dst THEN fsys[src] ELSE fsys[k]]

\* fitz.open(file_path) succeeds and page_count # 0
validate_pdf_file(fsys, file_path) == file_path \in DOMAIN fsys /\ fsys[file_path].valid

\* os.walk over the output directory, keeping file.endswith(extension)
walk_directory_and_extract_given_file_extension(fsys, extension) ==
    {k \in DOMAIN fsys : EndsWith(k[2], extension)}

\* the comprehension over current_files, the snapshot not subtracted
NewPdfFilesNoSnapshot(current_files, before) ==
    {f \in current_files : EndsWith(Lower(f), DotPdf)}

\* the list comprehension of wait_for_pdf_download
NewPdfFiles(current_files, before) ==
    {f \in current_files \ before : EndsWith(Lower(f), DotPdf)}

\* list(set(provided_slice)): the order of the result is arbitrary
remove_duplicates_from_slice(provided_slice) ==
    {provided_slice[i] : i \in 1..Len(provided_slice)}

(***************************************************************************)
(* Program constants.                                                      *)
(***************************************************************************)
\* timeout_seconds of wait_for_pdf_download
TimeoutSeconds == 3
\* The literal the download counter is compared with.  main.py:373 has
\* 2500; the model keeps the comparison and scales the literal down.
DownloadCap == 3

(***************************************************************************)
(* The catalog pages a run may have fetched.                               *)
(***************************************************************************)
Catalogs ==
    { <<GoodDoc(<<ItemWith(RefLower), ItemWithout, ItemWith(RefUpper)>>),
        GoodDoc(<<ItemWith(RefUpper), ItemWith(RefNested), ItemWith(RefAbsolute)>>)>>,
      <<GoodDoc(<<ItemWith(RefLower), ItemWith(RefUpper), ItemWithout>>),
        Doc("dict", "dict", "missing", <<>>)>>,
      <<GoodDoc(<<ItemWith(RefNested)>>), Doc("dict", "dict", "dict", <<>>)>>,
      <<GoodDoc(<<ItemWith(RefLower)>>), Doc("dict", "str", "missing", <<>>)>> }

NoTask == [url |-> <<>>, filename |-> <<>>]

Init ==
    /\ pages \in Catalogs
    /\ fs \in InitialDirs
    /\ pc = "extract"
    /\ pending = {}
    /\ total = 0
    /\ counter = 0
    /\ calls = 0
    /\ dpc = "idle"
    /\ task = NoTask
    /\ driver = 0
    /\ files_before = {}
    /\ elapsed = 0
    /\ found = <<>>
    /\ written = 0
    /\ in_time = FALSE
    /\ outcome = "none"
    /\ todo = {}
    /\ pdf_file = <<>>
    /\ xdoc = GoodDoc(<<>>)
    /\ xres = NotRun

downloadVars == <<dpc, task, driver, files_before, elapsed, found, written, in_time, outcome>>
extractVars == <<xdoc, xres>>

\* main(), steps 3 to 5: extract from both pages, concatenate, deduplicate
Extract ==
    /\ pc = "extract"
    /\ LET first == extract_pdfnames_from_response(pages[1])
           second == extract_pdfnames_from_response(pages[2])
           pdf_links == remove_duplicates_from_slice(first.names \o second.names)
       IN  IF first.raised \/ second.raised
           THEN /\ pc' = "aborted"
                /\ UNCHANGED <<pending, total, counter>>
           ELSE /\ pc' = "loop"
                /\ pending' = pdf_links
                /\ total' = Cardinality(pdf_links)
                /\ counter' = 0
    /\ UNCHANGED <<pages, calls, fs, todo, pdf_file>>
    /\ UNCHANGED downloadVars
    /\ UNCHANGED extractVars

\* main(), one iteration of the download loop up to the call of download_single_pdf
LoopNext ==
    /\ pc = "loop"
    /\ \E pdf_link \in pending :
          LET url == ResolveUrl(pdf_link)
              filename == url_to_filename(url)
          IN  /\ pending' = pending \ {pdf_link}
              /\ counter' = counter + 1
              /\ IF counter + 1 = DownloadCap
                 THEN /\ pc' = "done"
                      /\ UNCHANGED <<calls, dpc, task, outcome>>
                 ELSE /\ pc' = "call"
                      /\ calls' = calls + 1
                      /\ dpc' = "start"
                      /\ task' = [url |-> url, filename |-> filename]
                      /\ outcome' = "none"
    /\ UNCHANGED <<pages, total, fs, todo, pdf_file>>
    /\ UNCHANGED <<driver, files_before, elapsed, found, written, in_time>>
    /\ UNCHANGED extractVars

TargetPath == <<Top, task.filename>>

\* download_single_pdf up to the launch of the browser
DownloadBegin ==
    /\ pc = "call"
    /\ dpc = "start"
    /\ IF check_file_exists(fs, TargetPath)
       THEN /\ outcome' = "exists"
            /\ dpc' = "idle"
            /\ pc' = "loop"
            /\ UNCHANGED driver
       ELSE \/ /\ driver' = driver + 1           \* initialize_web_driver returns
               /\ dpc' = "snapshot"
               /\ UNCHANGED <<pc, outcome>>
            \/ /\ pc' = "aborted"                \* initialize_web_driver raises
               /\ dpc' = "idle"
               /\ UNCHANGED <<driver, outcome>>
    /\ UNCHANGED <<pages, pending, total, counter, calls, fs, todo, pdf_file>>
    /\ UNCHANGED <<task, files_before, elapsed, found, written, in_time>>
    /\ UNCHANGED extractVars

\* the snapshot, driver.get, and the start of wait_for_pdf_download
DownloadNavigate ==
    /\ dpc = "snapshot"
    /\ files_before' = ListDir(fs)
    /\ \/ /\ dpc' = "wait"                       \* driver.get returns
          /\ elapsed' = 0
          /\ written' = 0
          /\ in_time' = FALSE
          /\ UNCHANGED outcome
       \/ /\ dpc' = "except"                     \* driver.get raises
          /\ outcome' = "error_navigation"
          /\ UNCHANGED <<elapsed, written, in_time>>
    /\ UNCHANGED <<pages, pc, pending, total, counter, calls, fs, todo, pdf_file>>
    /\ UNCHANGED <<task, driver, found>>
    /\ UNCHANGED extractVars

\* `while time.time() < deadline`, and the raise after the loop
DetectorCheck ==
    /\ dpc = "wait"
    /\ IF elapsed < TimeoutSeconds
       THEN dpc' = "list" /\ UNCHANGED outcome
       ELSE dpc' = "except" /\ outcome' = "error_timeout"
    /\ UNCHANGED <<pages, pc, pending, total, counter, calls, fs, todo, pdf_file>>
    /\ UNCHANGED <<task, driver, files_before, elapsed, found, written, in_time>>
    /\ UNCHANGED extractVars

\* the body of the loop: list the folder, return a new PDF if there is one
DetectorList ==
    /\ dpc = "list"
    /\ LET new_pdf_files == NewPdfFiles(ListDir(fs), files_before)
       IN  IF new_pdf_files # {}
           THEN \E f \in new_pdf_files : found' = f /\ dpc' = "move"
           ELSE dpc' = "wait" /\ UNCHANGED found
    /\ UNCHANGED <<pages, pc, pending, total, counter, calls, fs, todo, pdf_file>>
    /\ UNCHANGED <<task, driver, files_before, elapsed, written, in_time, outcome>>
    /\ UNCHANGED extractVars

\* the clock advances while the detector runs
Tick ==
    /\ dpc \in {"wait", "list"}
    /\ elapsed < TimeoutSeconds
    /\ elapsed' = elapsed + 1
    /\ UNCHANGED <<pages, pc, pending, total, counter, calls, fs, todo, pdf_file>>
    /\ UNCHANGED <<dpc, task, driver, files_before, found, written, in_time, outcome>>
    /\ UNCHANGED extractVars

\* the browser stores a file in the download folder under a name not in use
BrowserWrites ==
    /\ dpc \in {"wait", "list"}
    /\ written < MaxWrites
    /\ \E name \in DownloadNames \ ListDir(fs), valid \in BOOLEAN :
          /\ fs' = CreateFile(fs, <<Top, name>>, Content(valid, <<Top, name>>, task.filename))
          /\ in_time' = (in_time \/ (elapsed < TimeoutSeconds /\ EndsWith(Lower(name), DotPdf)))
    /\ written' = written + 1
    /\ UNCHANGED <<pages, pc, pending, total, counter, calls, todo, pdf_file>>
    /\ UNCHANGED <<dpc, task, driver, files_before, elapsed, found, outcome>>
    /\ UNCHANGED extractVars

\* shutil.move(src=downloaded_pdf_path, dst=target_file_path)
DownloadMove ==
    /\ dpc = "move"
    /\ \/ /\ fs' = Rename(fs, <<Top, found>>, TargetPath)
          /\ outcome' = "complete"
          /\ dpc' = "finally"
       \/ /\ outcome' = "error_move"             \* shutil.move raises
          /\ dpc' = "except"
          /\ UNCHANGED fs
    /\ UNCHANGED <<pages, pc, pending, total, counter, calls, todo, pdf_file>>
    /\ UNCHANGED <<task, driver, files_before, elapsed, found, written, in_time>>
    /\ UNCHANGED extractVars

\* an except clause that returns, with no finally clause after it
DownloadExceptNoFinally ==
    /\ dpc = "except"
    /\ dpc' = "idle"
    /\ pc' = "loop"
    /\ UNCHANGED <<pages, pending, total, counter, calls, fs, todo, pdf_file>>
    /\ UNCHANGED <<task, driver, files_before, elapsed, found, written, in_time, outcome>>
    /\ UNCHANGED <<xdoc, xres>>

\* except Exception: log
DownloadExcept ==
    /\ dpc = "except"
    /\ dpc' = "finally"
    /\ UNCHANGED <<pages, pc, pending, total, counter, calls, fs, todo, pdf_file>>
    /\ UNCHANGED <<task, driver, files_before, elapsed, found, written, in_time, outcome>>
    /\ UNCHANGED extractVars

\* finally: driver.quit(), and the return to main()
DownloadFinally ==
    /\ dpc = "finally"
    /\ driver' = driver - 1
    /\ dpc' = "idle"
    /\ pc' = "loop"
    /\ UNCHANGED <<pages, pending, total, counter, calls, fs, todo, pdf_file>>
    /\ UNCHANGED <<task, files_before, elapsed, found, written, in_time, outcome>>
    /\ UNCHANGED extractVars

\* the loop is exhausted: main() walks the output directory
LoopEnd ==
    /\ pc = "loop"
    /\ pending = {}
    /\ todo' = walk_directory_and_extract_given_file_extension(fs, DotPdf)
    /\ pc' = "sweep"
    /\ UNCHANGED <<pages, pending, total, counter, calls, fs, pdf_file>>
    /\ UNCHANGED downloadVars
    /\ UNCHANGED extractVars

LowerPath(path) == <<path[1], Lower(path[2])>>

\* one iteration of the sweep: validate, remove, rename
SweepFile ==
    /\ pc = "sweep"
    /\ \E f \in todo :
          LET kept == IF validate_pdf_file(fs, f) THEN fs ELSE remove_system_file(fs, f)
          IN  /\ todo' = todo \ {f}
              /\ pdf_file' = f
              /\ IF check_upper_case_letter(f[2])
                 THEN IF f \in DOMAIN kept
                      THEN fs' = Rename(kept, f, LowerPath(f)) /\ UNCHANGED pc
                      ELSE fs' = kept /\ pc' = "aborted"   \* os.rename: FileNotFoundError
                 ELSE fs' = kept /\ UNCHANGED pc
    /\ UNCHANGED <<pages, pending, total, counter, calls>>
    /\ UNCHANGED downloadVars
    /\ UNCHANGED extractVars

\* the sweep is exhausted: main() returns
SweepEnd ==
    /\ pc = "sweep"
    /\ todo = {}
    /\ pc' = "done"
    /\ UNCHANGED <<pages, pending, total, counter, calls, fs, todo, pdf_file>>
    /\ UNCHANGED downloadVars
    /\ UNCHANGED extractVars

Next ==
    \/ Extract
    \/ LoopNext
    \/ DownloadBegin
    \/ DownloadNavigate
    \/ DetectorCheck
    \/ DetectorList
    \/ Tick
    \/ BrowserWrites
    \/ DownloadMove
    \/ DownloadExcept
    \/ DownloadFinally
    \/ LoopEnd
    \/ SweepFile
    \/ SweepEnd

Spec == Init /\ [][Next]_vars

(***************************************************************************)
(* SpecExtract: the extractor applied to one parsed document.              *)
(***************************************************************************)
Items == {ItemWith(RefLower), ItemWith(RefUpper), ItemWithout, ItemString, ItemNull}

ItemLists == UNION {[1..n -> Items] : n \in 0..MaxItems}

Docs ==
    {GoodDoc(list) : list \in ItemLists}
        \cup {Doc("list", "missing", "missing", <<>>)}
        \cup {Doc("dict", r, "missing", <<>>) : r \in {"missing", "str", "null", "list"}}
        \cup {Doc("dict", "dict", i, <<>>) : i \in {"missing", "dict", "str", "null"}}

InitExtract ==
    /\ xdoc \in Docs
    /\ xres = NotRun
    /\ pages = <<GoodDoc(<<>>), GoodDoc(<<>>)>>
    /\ fs = EmptyDir
    /\ pc = "extractor"
    /\ pending = {}
    /\ total = 0
    /\ counter = 0
    /\ calls = 0
    /\ dpc = "idle"
    /\ task = NoTask
    /\ driver = 0
    /\ files_before = {}
    /\ elapsed = 0
    /\ found = <<>>
    /\ written = 0
    /\ in_time = FALSE
    /\ outcome = "none"
    /\ todo = {}
    /\ pdf_file = <<>>

RunExtractor ==
    /\ pc = "extractor"
    /\ ~xres.run
    /\ xres' = extract_pdfnames_from_response(xdoc)
    /\ UNCHANGED xdoc
    /\ UNCHANGED mainVars

NextExtract == RunExtractor

SpecExtract == InitExtract /\ [][NextExtract]_vars

(***************************************************************************)
(* The claims.                                                             *)
(***************************************************************************)

\* C1: when the deduplicated reference list is longer than the cap, a run
\* that exits has made exactly cap calls of download_single_pdf.
C1_ExactlyCapCalls == (pc = "done" /\ total > DownloadCap) => calls = DownloadCap

\* C2: main() reaches its normal exit only out of the sweep over the output
\* directory, whichever way the download loop ended.
C2_SweepBeforeExit == [][(pc # "done" /\ pc' = "done") => pc = "sweep"]_vars

\* C3: no failure inside a call of download_single_pdf aborts the run: from
\* inside the call, main() is never left by an exception.
C3_FailureSwallowed == [][pc = "call" => pc' # "aborted"]_vars

\* C4: at most one browser session is alive, only while download_single_pdf
\* runs, and none is alive when the call has returned or the next one begins.
C4_SessionTornDown ==
    /\ driver \in {0, 1}
    /\ driver = 1 => pc = "call"
    /\ dpc \in {"idle", "start"} => driver = 0

\* a call that started a session and timed out has returned to main()
C4_Witness == pc = "loop" /\ dpc = "idle" /\ outcome = "error_timeout" /\ driver = 0

\* C5: the sweep deletes a file that fails validation and goes on, whatever the
\* casing of its name; a valid file is still there afterwards, under its name or
\* its lowercase name.
C5_InvalidDeletedSweepContinues ==
    [][(pc = "sweep" /\ todo' # todo) =>
          LET f == pdf_file'
          IN  IF validate_pdf_file(fs, f)
              THEN f \in DOMAIN fs' \/ LowerPath(f) \in DOMAIN fs'
              ELSE f \notin DOMAIN fs' /\ pc' # "aborted"]_vars

\* C6: when the sweep renames a file to its lowercase name and another file is
\* at that path, that file keeps its content, or the run stops with an error.
C6_NoSilentOverwrite ==
    [][(pc = "sweep" /\ todo' # todo) =>
          LET f == pdf_file'
              dst == LowerPath(f)
          IN  (check_upper_case_letter(f[2]) /\ f \in DOMAIN fs /\ dst \in DOMAIN fs)
                  => \/ pc' = "aborted"
                     \/ dst \in DOMAIN fs' /\ fs'[dst] = fs[dst]]_vars

\* the pdfname of the items that carry one, in input order
NamesCarried(list) ==
    LET carrying == SelectSeq(list, LAMBDA item : item.has)
    IN  [i \in 1..Len(carrying) |-> carrying[i].pdfname]

\* C7: on a parsed document that is a mapping, the extractor never raises; it
\* returns the empty list when `response` or `items` is missing or of the wrong
\* type, and otherwise the pdfname of exactly the items that carry one, in
\* input order, duplicates kept.
C7_ExtractorTotal ==
    (xres.run /\ xdoc.top = "dict") =>
        /\ ~xres.raised
        /\ IF xdoc.response = "dict" /\ xdoc.items = "list"
           THEN xres.names = NamesCarried(xdoc.list)
           ELSE xres.names = <<>>

\* C8 as stated: the detector returns only a file that is in the folder, not in
\* the snapshot and ends in .pdf, and it does not time out when such a file
\* arrived before the deadline.
C8_ReturnsWhatArrivedInTime ==
    /\ dpc = "move" =>
          /\ found \in ListDir(fs)
          /\ found \notin files_before
          /\ EndsWith(Lower(found), DotPdf)
    /\ outcome = "error_timeout" => ~in_time

\* C8 as amended: the detector returns only a file that is in the folder, not
\* in the snapshot and ends in .pdf; a listing that holds such files ends the
\* wait with one of them; a time check at or after the deadline raises the
\* timeout, and nothing else does.
C8_Detector ==
    [][/\ (dpc' = "move" /\ dpc # "move") =>
             /\ found' \in ListDir(fs')
             /\ found' \notin files_before'
             /\ EndsWith(Lower(found'), DotPdf)
       /\ (dpc = "list" /\ dpc' # "list"
             /\ \E f \in ListDir(fs) \ files_before : EndsWith(Lower(f), DotPdf)) =>
             dpc' = "move"
       /\ (dpc = "wait" /\ dpc' # "wait" /\ elapsed >= TimeoutSeconds) =>
             dpc' = "except" /\ outcome' = "error_timeout"
       /\ (outcome' = "error_timeout" /\ outcome # "error_timeout") =>
             dpc = "wait" /\ elapsed >= TimeoutSeconds]_vars

\* the detector returned one of two files that arrived, next to older files
C8_Witness == dpc = "move" /\ written = 2 /\ files_before # {} /\ elapsed < TimeoutSeconds

\* C9: a call that finds a file at the target path returns at once as a success:
\* no session is started and the output directory is left as it was.
C9_SkipIfExists ==
    [][(pc = "call" /\ dpc = "start" /\ TargetPath \in DOMAIN fs) =>
          /\ pc' = "loop"
          /\ dpc' = "idle"
          /\ outcome' = "exists"
          /\ driver' = 0
          /\ fs' = fs]_vars

\* a call skipped because an earlier reference of the batch left the same file name
C9_Witness ==
    /\ pc = "loop"
    /\ outcome = "exists"
    /\ TargetPath \in DOMAIN fs
    /\ fs[TargetPath].doc = task.filename
    /\ calls >= 2

\* C10: when the run exits normally, every PDF file of the output directory, at
\* any depth, is valid and has an all-lowercase name.
C10_DirectoryCleanAtExit ==
    pc = "done" =>
        \A p \in DOMAIN fs :
            EndsWith(Lower(p[2]), DotPdf) => fs[p].valid /\ ~check_upper_case_letter(p[2])

====
